---- MODULE Spec2Model ----
(***************************************************************************)
(* Model of src/src/ping.rs (fastping-rs): the per-target probe state      *)
(* `Ping`, the packet senders send_echo / send_echov6 and the round        *)
(* scheduler send_pings, together with the environment send_pings talks    *)
(* to: the two transports, the inbound channel of ReceivedPing records,    *)
(* the outbound channel of PingResult events, the round timer and the      *)
(* stop flag.                                                              *)
(***************************************************************************)
EXTENDS Integers, Sequences, FiniteSets, TLC

\* ---------------------------------------------------------------- bounds
MaxRounds  == 2      \* rounds of the outer loop that are explored
MaxQueue   == 1      \* reply records waiting in the inbound channel
MaxForeign == 1      \* reply records that answer no request of this prober
MaxRtt     == 0      \* max_rtt, in units of the 100 ms poll interval

\* ------------------------------------------------------ program constants
U16 == 65536         \* identifier and sequence_number are u16

\* IpAddr orders every V4 address before every V6 address.
V4Addrs == {1}
V6Addrs == {2}
Addrs   == V4Addrs \cup V6Addrs

Idents     == {1234}          \* values drawn from random::<u16>()
ForeignIds == {0, 4321}       \* identifiers other probers put in their requests
SeqInits   == {0, 65535}      \* Ping::new starts at 0; new_with_seq anywhere
ForeignSeq == {1}             \* sequence numbers of foreign replies
Rtts       == {12}
Ttls       == {64}

VARIABLES
  targets,          \* BTreeMap<IpAddr, Ping>
  overflow_checks,  \* build setting: "on" if u16 `+= 1` panics on overflow
  pc,               \* position of send_pings
  idx,              \* position of the iterator of the two for loops
  locks,            \* mutexes send_pings holds at its current position
  elapsed,          \* Instant::now() - *timer, in poll intervals, saturating
  stop,             \* *stop
  inbound,          \* thread_rx: ReceivedPing records not yet received
  rx_connected,     \* the sending half of thread_rx still exists
  wire,             \* echo requests sent that the network may still answer
  results,          \* the results_sender.send calls of this round, in order
  consumer_up,      \* the receiving half of results_sender still exists
  logged,           \* what the last step wrote with error!/debug!
  round,            \* number of the current iteration of the outer loop
  created,          \* sequence number each target was constructed with
  send_failed,      \* targets whose send_to returned Err in this round
  dispatched,       \* targets visited by the dispatch loop in this round
  foreign,          \* foreign reply records produced so far
  stop_polls        \* returns of recv_timeout since stop was set in this
                    \* inner loop, at most 3 counted (-1: set elsewhere)

vars == <<targets, overflow_checks, pc, idx, locks, elapsed, stop, inbound,
          rx_connected, wire, results, consumer_up, logged, round, created,
          send_failed, dispatched, foreign, stop_polls>>

\* ------------------------------------------------------------------ Ping
is_ipv4(addr) == addr \in V4Addrs
is_ipv6(addr) == addr \in V6Addrs

Ping_new(addr, rnd) ==
  [identifier      |-> IF is_ipv4(addr) THEN rnd ELSE 0,
   sequence_number |-> 0,
   seen            |-> FALSE]

new_with_seq(addr, rnd, seq) ==
  [identifier      |-> IF is_ipv4(addr) THEN rnd ELSE 0,
   sequence_number |-> seq,
   seen            |-> FALSE]

get_identifier(ping)      == ping.identifier
get_sequence_number(ping) == ping.sequence_number

\* `self.sequence_number += 1` on a u16: the value after the statement when
\* it does not panic.
increment_sequence_number(ping) ==
  [ping EXCEPT !.sequence_number = (ping.sequence_number + 1) % U16]

\* The addition overflows; with overflow checks the thread panics.
increment_overflows(ping) == ping.sequence_number + 1 >= U16

\* The build either has overflow checks or has none.  Both builds behave
\* alike until an addition overflows, so the setting is recorded at the first
\* overflowing addition and kept from then on.
build_after(ping) ==
  IF increment_overflows(ping) /\ overflow_checks = "unset"
  THEN {"on", "off"}
  ELSE {overflow_checks}

\* ------------------------------------------------------------ registry
Keys == DOMAIN targets
NumTargets == Cardinality(Keys)
\* the iteration runs from the greatest address to the least
KeyAt_descending(i) ==
  CHOOSE a \in Keys : Cardinality({b \in Keys : b > a}) = i - 1

\* i-th entry of the BTreeMap iterator (ascending key order)
KeyAt(i) == CHOOSE a \in Keys : Cardinality({b \in Keys : b < a}) = i - 1

\* ------------------------------------------------------------- packets
\* The echo request send_echo hands to the transport: the incremented
\* sequence number and the identifier of the target.
send_echo_packet(addr, ping) ==
  [addr |-> addr,
   identifier |-> get_identifier(increment_sequence_number(ping)),
   sequence_number |-> get_sequence_number(increment_sequence_number(ping))]

\* The echo request send_echov6 hands to the transport: only the type and the
\* checksum are set in the zeroed buffer.
send_echov6_packet(addr) ==
  [addr |-> addr, identifier |-> 0, sequence_number |-> 0]

\* ------------------------------------------------------- outcome events
Receive(addr, rtt, seq, ttl, origin) ==
  [kind |-> "Receive", addr |-> addr, rtt |-> rtt, seq |-> seq, ttl |-> ttl,
   round |-> round, origin |-> origin]

Idle(addr) ==
  [kind |-> "Idle", addr |-> addr, rtt |-> 0, seq |-> 0, ttl |-> 0,
   round |-> round, origin |-> 0]

\* --------------------------------------------------------------- Init
Registries ==
  UNION {[K -> [identifier : Idents \cup {0}, sequence_number : SeqInits,
                seen : {FALSE}]] : K \in SUBSET Addrs}

Init ==
  /\ targets \in {t \in Registries :
        \A a \in DOMAIN t :
          \E rnd \in Idents, seq \in SeqInits :
            t[a] = IF seq = 0 THEN Ping_new(a, rnd)
                              ELSE new_with_seq(a, rnd, seq)}
  /\ overflow_checks = "unset"
  /\ pc = "round_start"
  /\ idx = 1
  /\ locks = {}
  /\ elapsed = 0
  /\ stop = FALSE
  /\ inbound = <<>>
  /\ rx_connected = TRUE
  /\ wire = {}
  /\ results = <<>>
  /\ consumer_up = TRUE
  /\ logged = "none"
  /\ round = 0
  /\ created = [a \in DOMAIN targets |-> targets[a].sequence_number]
  /\ send_failed = {}
  /\ dispatched = {}
  /\ foreign = 0
  /\ stop_polls = 0

\* ------------------------------------------------------- send_pings
\* The network answers an echo request in the round it was sent in or in the
\* round after it, or not at all: at the start of a round the requests of
\* the round just ended are the only old ones that can still be answered.
still_answerable(w) == {q \in w : q.round = round}

\* line 124-125: top of `loop`, the registry lock is taken for the for loop
BeginRound ==
  /\ pc = "round_start"
  /\ round < MaxRounds
  /\ pc' = "dispatch"
  /\ idx' = 1
  /\ locks' = {"targets"}
  /\ round' = round + 1
  /\ send_failed' = {}
  /\ dispatched' = {}
  /\ logged' = "none"
  /\ results' = <<>>
  /\ wire' = still_answerable(wire)
  /\ UNCHANGED <<targets, overflow_checks, elapsed, stop, inbound,
                 rx_connected, consumer_up, created, foreign, stop_polls>>

\* the registry lock is taken for one send only and released after it
DispatchV4_lock_per_send(addr, ok) ==
  /\ is_ipv4(addr)
  /\ overflow_checks' \in build_after(targets[addr])
  /\ IF increment_overflows(targets[addr]) /\ overflow_checks' = "on"
     THEN /\ pc' = "panicked"
          /\ logged' = "panic"
          /\ locks' = {}
          /\ UNCHANGED <<targets, idx, wire, send_failed, dispatched>>
     ELSE /\ targets' = [targets EXCEPT
               ![addr] = [increment_sequence_number(@) EXCEPT !.seen = FALSE]]
          /\ wire' = IF ok
                     THEN wire \cup {[req |-> send_echo_packet(addr, targets[addr]),
                                      round |-> round]}
                     ELSE wire
          /\ send_failed' = IF ok THEN send_failed ELSE send_failed \cup {addr}
          /\ logged' = IF ok THEN "none" ELSE "send_failed"
          /\ dispatched' = dispatched \cup {addr}
          /\ idx' = idx + 1
          /\ locks' = {}
          /\ UNCHANGED pc

\* lines 126-136, IPv4 arm: send_echo increments, sends; seen is cleared.
\* An overflowing increment in a build with overflow checks unwinds the
\* thread, which drops the registry guard.
DispatchV4(addr, ok) ==
  /\ is_ipv4(addr)
  /\ overflow_checks' \in build_after(targets[addr])
  /\ IF increment_overflows(targets[addr]) /\ overflow_checks' = "on"
     THEN /\ pc' = "panicked"
          /\ logged' = "panic"
          /\ locks' = {}
          /\ UNCHANGED <<targets, idx, wire, send_failed, dispatched>>
     ELSE /\ targets' = [targets EXCEPT
               ![addr] = [increment_sequence_number(@) EXCEPT !.seen = FALSE]]
          /\ wire' = IF ok
                     THEN wire \cup {[req |-> send_echo_packet(addr, targets[addr]),
                                      round |-> round]}
                     ELSE wire
          /\ send_failed' = IF ok THEN send_failed ELSE send_failed \cup {addr}
          /\ logged' = IF ok THEN "none" ELSE "send_failed"
          /\ dispatched' = dispatched \cup {addr}
          /\ idx' = idx + 1
          /\ UNCHANGED <<pc, locks>>

\* line 136 is missing: seen keeps its value of the round before
DispatchV6_seen_kept(addr, ok) ==
  /\ is_ipv6(addr)
  /\ UNCHANGED <<overflow_checks, targets>>
  /\ wire' = IF ok
             THEN wire \cup {[req |-> send_echov6_packet(addr), round |-> round]}
             ELSE wire
  /\ send_failed' = IF ok THEN send_failed ELSE send_failed \cup {addr}
  /\ logged' = IF ok THEN "none" ELSE "send_failed"
  /\ dispatched' = dispatched \cup {addr}
  /\ idx' = idx + 1
  /\ UNCHANGED <<pc, locks>>

\* lines 128-136, IPv6 arm: send_echov6 gets the address only
DispatchV6(addr, ok) ==
  /\ is_ipv6(addr)
  /\ UNCHANGED overflow_checks
  /\ targets' = [targets EXCEPT ![addr].seen = FALSE]
  /\ wire' = IF ok
             THEN wire \cup {[req |-> send_echov6_packet(addr), round |-> round]}
             ELSE wire
  /\ send_failed' = IF ok THEN send_failed ELSE send_failed \cup {addr}
  /\ logged' = IF ok THEN "none" ELSE "send_failed"
  /\ dispatched' = dispatched \cup {addr}
  /\ idx' = idx + 1
  /\ UNCHANGED <<pc, locks>>

DispatchTarget ==
  /\ pc = "dispatch"
  /\ idx <= NumTargets
  /\ \E ok \in BOOLEAN :
       \/ DispatchV4(KeyAt(idx), ok)
       \/ DispatchV6(KeyAt(idx), ok)
  /\ UNCHANGED <<elapsed, stop, inbound, rx_connected,
                 results, consumer_up, round, created, foreign, stop_polls>>

\* line 137: the iterator is exhausted, the registry lock is released
DispatchEnd ==
  /\ pc = "dispatch"
  /\ idx > NumTargets
  /\ pc' = "arm"
  /\ locks' = {}
  /\ logged' = "none"
  /\ UNCHANGED <<targets, overflow_checks, idx, elapsed, stop, inbound,
                 rx_connected, wire, results, consumer_up, round, created,
                 send_failed, dispatched, foreign, stop_polls>>

\* the registry guard is still alive when the inner loop is entered
ArmTimer_registry_locked ==
  /\ pc = "arm"
  /\ elapsed' = 0
  /\ pc' = "wait"
  /\ locks' = {"targets", "thread_rx"}
  /\ logged' = "none"
  /\ UNCHANGED <<targets, overflow_checks, idx, stop, inbound, rx_connected,
                 wire, results, consumer_up, round, created, send_failed,
                 dispatched, foreign, stop_polls>>

\* lines 138-142: *timer = Instant::now(); then the inner loop blocks in
\* recv_timeout holding the thread_rx lock
ArmTimer ==
  /\ pc = "arm"
  /\ elapsed' = 0
  /\ pc' = "wait"
  /\ locks' = {"thread_rx"}
  /\ logged' = "none"
  /\ UNCHANGED <<targets, overflow_checks, idx, stop, inbound, rx_connected,
                 wire, results, consumer_up, round, created, send_failed,
                 dispatched, foreign, stop_polls>>

\* the identifier is not compared
reply_matches_seq_only(ping, reply) ==
  get_sequence_number(ping) = reply.sequence_number

\* the sequence number is not compared
reply_matches_id_only(ping, reply) ==
  get_identifier(ping) = reply.identifier

\* lines 161-162: the test that decides whether a reply is accepted
reply_matches(ping, reply) ==
  /\ get_identifier(ping) = reply.identifier
  /\ get_sequence_number(ping) = reply.sequence_number

\* line 164: ping.seen = true
mark_seen(reg, addr) == [reg EXCEPT ![addr].seen = TRUE]

\* seq and ttl change places
receive_event_swapped(reply) ==
  Receive(reply.addr, reply.rtt, reply.ttl, reply.sequence_number,
          reply.origin)

\* lines 166-171: the PingResult::Receive built from the reply
receive_event(reply) ==
  Receive(reply.addr, reply.rtt, reply.sequence_number, reply.ttl,
          reply.origin)

\* a failed send is logged whether or not stop is set
delivery_log_unconditional(msg) ==
  IF ~consumer_up THEN msg ELSE "none"

\* lines 172-180 and 203-208: a failed send is logged unless stop is set
delivery_log(msg) ==
  IF ~consumer_up /\ ~stop THEN msg ELSE "none"

\* one more return of recv_timeout; those that follow the setting of the stop
\* flag are counted
polls_counted ==
  IF stop /\ stop_polls \in 0..2 THEN stop_polls + 1 ELSE stop_polls

\* a matching reply for a target that is already seen is not reported again
PollReply_dedup ==
  /\ pc = "wait"
  /\ inbound # <<>>
  /\ stop_polls' = polls_counted
  /\ LET reply == Head(inbound) IN
       /\ inbound' = Tail(inbound)
       /\ IF reply.addr \in Keys
          THEN IF reply_matches(targets[reply.addr], reply)
               THEN IF targets[reply.addr].seen
                    THEN /\ logged' = "none"
                         /\ UNCHANGED <<targets, results>>
                    ELSE /\ targets' = mark_seen(targets, reply.addr)
                         /\ results' = Append(results, receive_event(reply))
                         /\ logged' = delivery_log("result_send_error")
               ELSE /\ logged' = "mismatch"
                    /\ UNCHANGED <<targets, results>>
          ELSE /\ logged' = "none"
               /\ UNCHANGED <<targets, results>>
  /\ UNCHANGED <<overflow_checks, pc, idx, locks, elapsed, stop, rx_connected,
                 wire, consumer_up, round, created, send_failed, dispatched,
                 foreign>>

\* lines 145-188: recv_timeout returned Ok(ping_result)
PollReply ==
  /\ pc = "wait"
  /\ inbound # <<>>
  /\ stop_polls' = polls_counted
  /\ LET reply == Head(inbound) IN
       /\ inbound' = Tail(inbound)
       /\ IF reply.addr \in Keys
          THEN IF reply_matches(targets[reply.addr], reply)
               THEN /\ targets' = mark_seen(targets, reply.addr)
                    /\ results' = Append(results, receive_event(reply))
                    /\ logged' = delivery_log("result_send_error")
               ELSE /\ logged' = "mismatch"
                    /\ UNCHANGED <<targets, results>>
          ELSE /\ logged' = "none"
               /\ UNCHANGED <<targets, results>>
  /\ UNCHANGED <<overflow_checks, pc, idx, locks, elapsed, stop, rx_connected,
                 wire, consumer_up, round, created, send_failed, dispatched,
                 foreign>>

\* the round timer never expires
timed_out_never(e) == FALSE

\* line 192: Instant::now().duration_since(*start_time) > *max_rtt
timed_out(e) == e > MaxRtt

\* time that has passed when recv_timeout returns Err: a whole poll interval
\* on Timeout, none on Disconnected
after_poll(e) ==
  IF rx_connected /\ e <= MaxRtt THEN e + 1 ELSE e

\* a poll that has not timed out starts the next dispatch at once
PollTimeout_redispatch ==
  /\ pc = "wait"
  /\ inbound = <<>>
  /\ elapsed' = after_poll(elapsed)
  /\ IF timed_out(elapsed')
     THEN /\ pc' = "sweep"
          /\ idx' = 1
          /\ locks' = {"targets"}
     ELSE /\ pc' = "dispatch"
          /\ idx' = 1
          /\ locks' = {"targets"}
  /\ logged' = "none"
  /\ stop_polls' = polls_counted
  /\ UNCHANGED <<targets, overflow_checks, stop, inbound, rx_connected, wire,
                 results, consumer_up, round, created, send_failed,
                 dispatched, foreign>>

\* lines 189-195: recv_timeout returned Err(_); line 199 takes the registry
\* lock for the idle sweep when the inner loop is left
PollTimeout ==
  /\ pc = "wait"
  /\ inbound = <<>>
  /\ elapsed' = after_poll(elapsed)
  /\ IF timed_out(elapsed')
     THEN /\ pc' = "sweep"
          /\ idx' = 1
          /\ locks' = {"targets"}
     ELSE UNCHANGED <<pc, idx, locks>>
  /\ logged' = "none"
  /\ stop_polls' = polls_counted
  /\ UNCHANGED <<targets, overflow_checks, stop, inbound, rx_connected, wire,
                 results, consumer_up, round, created, send_failed,
                 dispatched, foreign>>

\* lines 199-211: one iteration of the idle sweep
SweepTarget ==
  /\ pc = "sweep"
  /\ idx <= NumTargets
  /\ LET addr == KeyAt(idx) IN
       IF targets[addr].seen = FALSE
       THEN /\ results' = Append(results, Idle(addr))
            /\ logged' = delivery_log("idle_send_error")
       ELSE /\ logged' = "none"
            /\ UNCHANGED results
  /\ idx' = idx + 1
  /\ UNCHANGED <<targets, overflow_checks, pc, locks, elapsed, stop, inbound,
                 rx_connected, wire, consumer_up, round, created, send_failed,
                 dispatched, foreign, stop_polls>>

\* line 211: the sweep's iterator is exhausted, the registry lock is released
SweepEnd ==
  /\ pc = "sweep"
  /\ idx > NumTargets
  /\ pc' = "stopcheck"
  /\ locks' = {}
  /\ logged' = "none"
  /\ stop_polls' = IF stop THEN -1 ELSE 0
  /\ UNCHANGED <<targets, overflow_checks, idx, elapsed, stop, inbound,
                 rx_connected, wire, results, consumer_up, round, created,
                 send_failed, dispatched, foreign>>

\* the stop flag is not looked at
StopCheck_ignores_stop ==
  /\ pc = "stopcheck"
  /\ pc' = "round_start"
  /\ logged' = "none"
  /\ UNCHANGED <<targets, overflow_checks, idx, locks, elapsed, stop, inbound,
                 rx_connected, wire, results, consumer_up, round, created,
                 send_failed, dispatched, foreign, stop_polls>>

\* lines 212-216: return if *stop, else the next iteration of `loop`
StopCheck ==
  /\ pc = "stopcheck"
  /\ pc' = IF stop THEN "done" ELSE "round_start"
  /\ logged' = "none"
  /\ UNCHANGED <<targets, overflow_checks, idx, locks, elapsed, stop, inbound,
                 rx_connected, wire, results, consumer_up, round, created,
                 send_failed, dispatched, foreign, stop_polls>>

\* ------------------------------------------------------- environment
\* the owner of the session writes true into the stop flag
SetStop ==
  /\ ~stop
  /\ stop' = TRUE
  /\ stop_polls' = IF pc = "wait" THEN 0 ELSE -1
  /\ UNCHANGED <<targets, overflow_checks, pc, idx, locks, elapsed, inbound,
                 rx_connected, wire, results, consumer_up, logged, round,
                 created, send_failed, dispatched, foreign>>

\* wall-clock time passes while the scheduler is in the inner loop
Tick ==
  /\ pc = "wait"
  /\ elapsed <= MaxRtt
  /\ elapsed' = elapsed + 1
  /\ UNCHANGED <<targets, overflow_checks, pc, idx, locks, stop, inbound,
                 rx_connected, wire, results, consumer_up, logged, round,
                 created, send_failed, dispatched, foreign, stop_polls>>

\* The receiver thread turns the echo reply to a request into a ReceivedPing.
\* The channel is read in the inner loop only, so a record pushed at any other
\* position of send_pings is a record pushed before the next poll.
Deliver ==
  /\ pc = "wait"
  /\ rx_connected
  /\ Len(inbound) < MaxQueue
  /\ \E w \in wire, rtt \in Rtts, ttl \in Ttls :
       /\ wire' = wire \ {w}
       /\ inbound' = Append(inbound,
            [addr |-> w.req.addr, identifier |-> w.req.identifier,
             sequence_number |-> w.req.sequence_number,
             rtt |-> rtt, ttl |-> ttl, origin |-> w.round])
  /\ UNCHANGED <<targets, overflow_checks, pc, idx, locks, elapsed, stop,
                 rx_connected, results, consumer_up, logged, round, created,
                 send_failed, dispatched, foreign, stop_polls>>

\* The receiver thread hands over an echo reply that answers no request of
\* this prober: a reply to another process probing the same host, or a reply
\* from a host that is not a target.
Foreign ==
  /\ pc = "wait"
  /\ rx_connected
  /\ Len(inbound) < MaxQueue
  /\ foreign < MaxForeign
  /\ foreign' = foreign + 1
  /\ \E a \in Addrs, id \in ForeignIds, seq \in ForeignSeq,
        rtt \in Rtts, ttl \in Ttls :
       inbound' = Append(inbound,
            [addr |-> a, identifier |-> id, sequence_number |-> seq,
             rtt |-> rtt, ttl |-> ttl, origin |-> 0])
  /\ UNCHANGED <<targets, overflow_checks, pc, idx, locks, elapsed, stop,
                 rx_connected, wire, results, consumer_up, logged, round,
                 created, send_failed, dispatched, stop_polls>>

\* The network duplicates the echo reply to this round's request of an IPv4
\* target: the receiver thread hands over one more record for it and the
\* request can still be answered. (A second record with the fields of an
\* IPv6 reply, or of an earlier round's reply, is one Deliver produces.) A
\* duplicate is one of the at most MaxForeign surplus records.
Duplicate ==
  /\ pc = "wait"
  /\ rx_connected
  /\ Len(inbound) < MaxQueue
  /\ foreign < MaxForeign
  /\ foreign' = foreign + 1
  /\ \E w \in wire, rtt \in Rtts, ttl \in Ttls :
       /\ is_ipv4(w.req.addr)
       /\ w.round = round
       /\ inbound' = Append(inbound,
            [addr |-> w.req.addr, identifier |-> w.req.identifier,
             sequence_number |-> w.req.sequence_number,
             rtt |-> rtt, ttl |-> ttl, origin |-> w.round])
  /\ UNCHANGED <<targets, overflow_checks, pc, idx, locks, elapsed, stop,
                 rx_connected, wire, results, consumer_up, logged, round,
                 created, send_failed, dispatched, stop_polls>>

\* The consumer drops the receiving half of the outcome channel; send_pings
\* can observe it in the inner loop and in the idle sweep only.
ConsumerDisconnect ==
  /\ pc \in {"wait", "sweep"}
  /\ consumer_up
  /\ consumer_up' = FALSE
  /\ UNCHANGED <<targets, overflow_checks, pc, idx, locks, elapsed, stop,
                 inbound, rx_connected, wire, results, logged, round, created,
                 send_failed, dispatched, foreign, stop_polls>>

\* The receiver thread drops the sending half of the inbound channel;
\* send_pings can observe it in the inner loop only.
InboundDisconnect ==
  /\ pc = "wait"
  /\ rx_connected
  /\ rx_connected' = FALSE
  /\ UNCHANGED <<targets, overflow_checks, pc, idx, locks, elapsed, stop,
                 inbound, wire, results, consumer_up, logged, round, created,
                 send_failed, dispatched, foreign, stop_polls>>

Next ==
  \/ BeginRound
  \/ DispatchTarget
  \/ DispatchEnd
  \/ ArmTimer
  \/ PollReply
  \/ PollTimeout
  \/ SweepTarget
  \/ SweepEnd
  \/ StopCheck
  \/ SetStop
  \/ Tick
  \/ Deliver
  \/ Foreign
  \/ Duplicate
  \/ ConsumerDisconnect
  \/ InboundDisconnect

Spec == Init /\ [][Next]_vars

\* ------------------------------------------------------------ fairness
\* a step of the thread that runs send_pings
SchedStep ==
  \/ BeginRound
  \/ DispatchTarget
  \/ DispatchEnd
  \/ ArmTimer
  \/ PollReply
  \/ PollTimeout
  \/ SweepTarget
  \/ SweepEnd
  \/ StopCheck

\* The thread is scheduled again and again, and the clock advances. Nothing
\* is assumed of the other threads, and nothing of which way a poll returns.
Fairness == WF_vars(SchedStep) /\ WF_vars(Tick)

\* send_pings in an environment where every record on the inbound channel
\* is the one answer to a request, so that the records of a round are
\* finitely many
NextFair ==
  \/ SchedStep
  \/ SetStop
  \/ Tick
  \/ Deliver
  \/ ConsumerDisconnect
  \/ InboundDisconnect

FairSpec == Init /\ [][NextFair]_vars /\ Fairness

\* The receiver thread hands over echo replies that answer no request of
\* this prober, with no limit to their number: other processes probe the
\* same hosts for as long as they like.
Flood ==
  /\ pc = "wait"
  /\ rx_connected
  /\ Len(inbound) < MaxQueue
  /\ \E a \in Addrs, id \in ForeignIds, seq \in ForeignSeq,
        rtt \in Rtts, ttl \in Ttls :
       inbound' = Append(inbound,
            [addr |-> a, identifier |-> id, sequence_number |-> seq,
             rtt |-> rtt, ttl |-> ttl, origin |-> 0])
  /\ UNCHANGED <<targets, overflow_checks, pc, idx, locks, elapsed, stop,
                 rx_connected, wire, results, consumer_up, logged, round,
                 created, send_failed, dispatched, foreign, stop_polls>>

NextFlood ==
  \/ NextFair
  \/ Flood

FloodSpec == Init /\ [][NextFlood]_vars /\ Fairness

\* ------------------------------------------- registry shared with an owner
\* The registry is shared: while send_pings runs, the owner of the session
\* adds a target. It takes the registry lock, which it gets only when
\* send_pings does not hold it, and inserts a new Ping for an address that
\* is not yet a key.
InsertTarget(addr, rnd) ==
  /\ pc \in {"round_start", "arm", "wait", "stopcheck"}
  /\ "targets" \notin locks
  /\ addr \notin Keys
  /\ targets' = [a \in Keys \cup {addr} |->
                   IF a = addr THEN Ping_new(addr, rnd) ELSE targets[a]]
  /\ created' = [a \in Keys \cup {addr} |->
                   IF a = addr THEN 0 ELSE created[a]]
  /\ UNCHANGED <<overflow_checks, pc, idx, locks, elapsed, stop, inbound,
                 rx_connected, wire, results, consumer_up, logged, round,
                 send_failed, dispatched, foreign, stop_polls>>

NextInsert ==
  \/ Next
  \/ \E addr \in Addrs, rnd \in Idents : InsertTarget(addr, rnd)

SpecInsert == Init /\ [][NextInsert]_vars

\* ------------------------------------------------- Ping used on its own
\* Ping values constructed and incremented directly, as tests::test_ping
\* does, without the scheduler.

\* values random::<u16>() can return (line 35)
RandomU16 == {0, 1, 1234, 65535}

\* increment_sequence_number is applied to one Ping at most this often
MaxIncrements == 2

InitPing ==
  /\ targets = <<>>
  /\ created = <<>>
  /\ overflow_checks = "unset"
  /\ pc = "round_start"
  /\ idx = 1
  /\ locks = {}
  /\ elapsed = 0
  /\ stop = FALSE
  /\ inbound = <<>>
  /\ rx_connected = TRUE
  /\ wire = {}
  /\ results = <<>>
  /\ consumer_up = TRUE
  /\ logged = "none"
  /\ round = 0
  /\ send_failed = {}
  /\ dispatched = {}
  /\ foreign = 0
  /\ stop_polls = 0

\* lines 32-43: Ping::new(addr)
PingNew(addr, rnd) ==
  /\ pc = "round_start"
  /\ addr \notin Keys
  /\ targets' = [a \in Keys \cup {addr} |->
                   IF a = addr THEN Ping_new(addr, rnd) ELSE targets[a]]
  /\ created' = [a \in Keys \cup {addr} |->
                   IF a = addr THEN 0 ELSE created[a]]
  /\ UNCHANGED <<overflow_checks, pc, idx, locks, elapsed, stop, inbound,
                 rx_connected, wire, results, consumer_up, logged, round,
                 send_failed, dispatched, foreign, stop_polls>>

\* lines 45-56: Ping::new_with_seq(addr, seq)
PingNewWithSeq(addr, rnd, seq) ==
  /\ pc = "round_start"
  /\ addr \notin Keys
  /\ targets' = [a \in Keys \cup {addr} |->
                   IF a = addr THEN new_with_seq(addr, rnd, seq)
                   ELSE targets[a]]
  /\ created' = [a \in Keys \cup {addr} |->
                   IF a = addr THEN seq ELSE created[a]]
  /\ UNCHANGED <<overflow_checks, pc, idx, locks, elapsed, stop, inbound,
                 rx_connected, wire, results, consumer_up, logged, round,
                 send_failed, dispatched, foreign, stop_polls>>

\* lines 70-73: ping.increment_sequence_number(); the addition overflows at
\* 65535 and then panics or wraps, as the build decides
PingIncrement(addr) ==
  /\ pc = "round_start"
  /\ addr \in Keys
  /\ (targets[addr].sequence_number - created[addr]) % U16 < MaxIncrements
  /\ overflow_checks' \in build_after(targets[addr])
  /\ IF increment_overflows(targets[addr]) /\ overflow_checks' = "on"
     THEN /\ pc' = "panicked"
          /\ logged' = "panic"
          /\ UNCHANGED targets
     ELSE /\ targets' = [targets EXCEPT
                           ![addr] = increment_sequence_number(@)]
          /\ UNCHANGED <<pc, logged>>
  /\ UNCHANGED <<idx, locks, elapsed, stop, inbound, rx_connected, wire,
                 results, consumer_up, round, created, send_failed,
                 dispatched, foreign, stop_polls>>

NextPing ==
  \/ \E addr \in Addrs, rnd \in RandomU16 : PingNew(addr, rnd)
  \/ \E addr \in Addrs, rnd \in RandomU16, seq \in SeqInits :
       PingNewWithSeq(addr, rnd, seq)
  \/ \E addr \in Addrs : PingIncrement(addr)

SpecPing == InitPing /\ [][NextPing]_vars

\* ------------------------------------------------------------ observers
RecvCount(a) ==
  Cardinality({i \in DOMAIN results :
                 results[i].kind = "Receive" /\ results[i].addr = a})

IdleCount(a) ==
  Cardinality({i \in DOMAIN results :
                 results[i].kind = "Idle" /\ results[i].addr = a})

\* this step is a return of recv_timeout with Ok(ping_result): only send_pings
\* takes records out of the inbound channel
ReplyConsumed == pc = "wait" /\ Len(inbound') = Len(inbound) - 1

\* this step appended one event to the outcome channel
EventSent == Len(results') = Len(results) + 1

Running == {"round_start", "dispatch", "arm", "wait", "sweep", "stopcheck"}

\* ------------------------------------------------------------------ C1
\* C1: when the inner loop takes a reply whose address is in the registry
\* and whose identifier and sequence number equal the target's current
\* values, the target's seen flag is true afterwards and exactly one event is
\* sent: a Receive with the reply's address, rtt, sequence number and ttl.
C1_MatchingReplyReceived ==
  [][(/\ ReplyConsumed
      /\ Head(inbound).addr \in Keys
      /\ Head(inbound).identifier = targets[Head(inbound).addr].identifier
      /\ Head(inbound).sequence_number
           = targets[Head(inbound).addr].sequence_number)
     => (/\ targets'[Head(inbound).addr].seen = TRUE
         /\ results' = Append(results,
              [kind |-> "Receive", addr |-> Head(inbound).addr,
               rtt |-> Head(inbound).rtt,
               seq |-> Head(inbound).sequence_number,
               ttl |-> Head(inbound).ttl, round |-> round,
               origin |-> Head(inbound).origin]))]_vars

\* the reply to this round's request of a target was received and reported
C1_Witness ==
  /\ pc = "wait"
  /\ \E i \in DOMAIN results :
       /\ results[i].kind = "Receive"
       /\ results[i].origin = round
       /\ results[i].rtt \in Rtts /\ results[i].ttl \in Ttls
       /\ targets[results[i].addr].seen

\* ------------------------------------------------------------------ C2
\* C2: when the inner loop takes a reply whose address is in the registry but
\* whose identifier or sequence number differs from the target's current
\* value, no event is sent and no registry entry changes.
C2_MismatchedReplyDropped ==
  [][(/\ ReplyConsumed
      /\ Head(inbound).addr \in Keys
      /\ \/ Head(inbound).identifier # targets[Head(inbound).addr].identifier
         \/ Head(inbound).sequence_number
              # targets[Head(inbound).addr].sequence_number)
     => (results' = results /\ targets' = targets)]_vars

\* a mismatched reply has just been dropped
C2_Witness ==
  /\ pc = "wait"
  /\ logged = "mismatch"
  /\ results = <<>>
  /\ \A a \in Keys : ~targets[a].seen

\* ------------------------------------------------------------------ C6
\* C6: whenever a Receive event is sent, it is sent for the reply just taken
\* from the inbound channel, its address is a key of the registry, its seq is
\* that target's current sequence number and the reply's identifier is that
\* target's identifier; a reply whose address is not in the registry sends no
\* event and changes no registry entry.
C6_OnlyCurrentRepliesSurface ==
  [][/\ (EventSent /\ results'[Len(results')].kind = "Receive")
          => /\ ReplyConsumed
             /\ results'[Len(results')].addr = Head(inbound).addr
             /\ results'[Len(results')].addr \in Keys
             /\ results'[Len(results')].seq = Head(inbound).sequence_number
             /\ results'[Len(results')].seq
                  = targets[Head(inbound).addr].sequence_number
             /\ Head(inbound).identifier
                  = targets[Head(inbound).addr].identifier
     /\ (ReplyConsumed /\ Head(inbound).addr \notin Keys)
          => (results' = results /\ targets' = targets)]_vars

\* a Receive event has been sent and a reply from an unknown address is the
\* next record the inner loop takes
C6_Witness ==
  /\ pc = "wait"
  /\ \E i \in DOMAIN results : results[i].kind = "Receive"
  /\ inbound # <<>>
  /\ Head(inbound).addr \notin Keys

\* ------------------------------------------------------------------ C3
\* C3: when the idle sweep of a round is complete, every target in the
\* registry for which no matching reply was processed in the round has
\* exactly one Idle event of that round, and every target for which one was
\* processed has none.
C3_IdleIffNoReply ==
  pc = "stopcheck" =>
    \A a \in Keys :
      IdleCount(a) = (IF RecvCount(a) = 0 THEN 1 ELSE 0)

\* a completed second round with one target answered and another one idle
C3_Witness ==
  /\ pc = "stopcheck"
  /\ round = 2
  /\ \E a, b \in Keys :
       /\ RecvCount(a) > 0 /\ IdleCount(a) = 0
       /\ RecvCount(b) = 0 /\ IdleCount(b) = 1

\* ------------------------------------------------------------------ C4
\* C4: a reply that answers the echo request of an earlier round, taken from
\* the inbound channel in a later round, sends no Receive event and does not
\* set seen, for IPv4 and IPv6 targets alike.
C4_StaleReplyNeverMatched ==
  [][(ReplyConsumed /\ Head(inbound).origin \in 1..(round - 1))
     => (results' = results /\ targets' = targets)]_vars

\* ------------------------------------------------------------------ C5
\* C5: for a target constructed with sequence number 0, of either address
\* family, the sequence number is N when N rounds are complete; it never
\* decreases and changes only in the dispatch step, by exactly 1.
C5_SequenceCountsRounds ==
  [][\A a \in Keys :
       created[a] = 0 =>
         /\ pc' = "stopcheck" => targets'[a].sequence_number = round'
         /\ targets'[a].sequence_number >= targets[a].sequence_number
         /\ targets'[a].sequence_number # targets[a].sequence_number
              => /\ pc = "dispatch"
                 /\ targets'[a].sequence_number
                      = targets[a].sequence_number + 1]_vars

C8_OnlyStopTerminates ==
  [][(pc \in Running /\ pc' \notin Running)
     => (pc = "stopcheck" /\ stop /\ pc' = "done")]_vars

\* ------------------------------------------------------------------ C9
\* C9: after a dispatch step in which the send to a target failed, every
\* target of the registry has been dispatched and the failing target's seen
\* flag is false when the timer is armed; when the round's idle sweep is
\* complete the failing target has one Idle event and no Receive event.
C9_FailedSendReportedIdle ==
  /\ pc = "arm" =>
       /\ dispatched = Keys
       /\ \A a \in send_failed : ~targets[a].seen
  /\ pc = "stopcheck" =>
       \A a \in send_failed : IdleCount(a) = 1 /\ RecvCount(a) = 0

\* ------------------------------------------------------------------ C10
\* C10: a sequence number changes, and a seen flag is cleared, only in a step
\* of the dispatch loop and only for the entry the loop is at; the dispatch
\* loop is entered only from the top of the outer loop, which is reached only
\* from the stop check, which is reached only from a complete idle sweep,
\* which is entered only from the wait phase on a timed-out poll.
C10_OneOutstandingSequence ==
  [][/\ \A a \in Keys :
          (\/ targets'[a].sequence_number # targets[a].sequence_number
           \/ (targets[a].seen /\ ~targets'[a].seen))
          => (pc = "dispatch" /\ idx <= NumTargets /\ a = KeyAt(idx))
     /\ (pc' = "dispatch" /\ pc # "dispatch") => pc = "round_start"
     /\ (pc' = "round_start" /\ pc # "round_start") => pc = "stopcheck"
     /\ (pc' = "stopcheck" /\ pc # "stopcheck")
          => (pc = "sweep" /\ idx > NumTargets)
     /\ (pc' = "sweep" /\ pc # "sweep")
          => (pc = "wait" /\ inbound = <<>> /\ elapsed' > MaxRtt)]_vars

\* the second round's request is outstanding: the sequence number has been
\* incremented twice and the scheduler waits for replies
C10_Witness ==
  /\ pc = "wait"
  /\ round = 2
  /\ \E a \in Keys : targets[a].sequence_number = created[a] + 2

\* ------------------------------------------------------------------ C11
\* C11: whenever send_pings is in the inner loop, blocked in recv_timeout or
\* between two polls, it holds neither the registry lock nor the lock of the
\* IPv4 or the IPv6 transport sender.
C11_NoLockAcrossPoll ==
  pc = "wait" => locks \cap {"targets", "tx", "txv6"} = {}

\* the second round's inner loop, after a dispatch loop and an idle sweep
\* have each taken and released the registry lock
C11_Witness ==
  /\ pc = "wait"
  /\ round = 2
  /\ dispatched = Keys /\ Keys # {}
  /\ locks = {"thread_rx"}

\* ------------------------------------------------------------------ C14
\* C14: a send on the outcome channel that fails because the consumer is
\* gone leaves send_pings in the loop it is in; the matched target's seen
\* flag is true after a failed Receive; the error is logged if and only if
\* the stop flag is not set at that moment, and nothing is logged for a send
\* that succeeds; when the idle sweep is complete every target with seen
\* false has had its Idle event attempted.
C14_FailedDeliveryNotFatal ==
  [][/\ (EventSent /\ ~consumer_up)
          => /\ pc' = pc
             /\ (logged' \in {"result_send_error", "idle_send_error"})
                  <=> ~stop
             /\ results'[Len(results')].kind = "Receive"
                  => targets'[results'[Len(results')].addr].seen
     /\ (EventSent /\ consumer_up) => logged' = "none"
     /\ (pc' = "stopcheck" /\ pc = "sweep")
          => \A a \in Keys : ~targets[a].seen => IdleCount(a) = 1]_vars

\* the consumer is gone, the Idle event of the first target could not be
\* delivered and was logged, and the sweep goes on to the second target
C14_Witness ==
  /\ pc = "sweep"
  /\ ~consumer_up /\ ~stop
  /\ logged = "idle_send_error"
  /\ idx = 2 /\ NumTargets = 2
  /\ ~targets[KeyAt(2)].seen

\* ------------------------------------------------------------------ C12
\* C12: increment_sequence_number never faults; it replaces the sequence
\* number s by (s + 1) mod 2^16, so that 65535 becomes 0, and changes no
\* other field of the Ping.
C12_IncrementWraps ==
  [][/\ pc' # "panicked"
     /\ \A a \in Keys :
          targets'[a] # targets[a]
          => targets'[a] = [targets[a] EXCEPT
                              !.sequence_number = (@ + 1) % U16]]_vars

\* ------------------------------------------------------------------ C13
\* C13: a newly constructed Ping has seen false and the sequence number it
\* was constructed with (0 for Ping::new); its identifier is greater than 0
\* for an IPv4 address and 0 for an IPv6 address, and the identifier of an
\* existing Ping never changes.
C13_FreshPingFields ==
  [][\A a \in Keys' :
       IF a \in Keys
       THEN targets'[a].identifier = targets[a].identifier
       ELSE /\ targets'[a].sequence_number = created'[a]
            /\ ~targets'[a].seen
            /\ is_ipv4(a) => targets'[a].identifier > 0
            /\ is_ipv6(a) => targets'[a].identifier = 0]_vars

\* ------------------------------------------------------------------ C16
\* C16 as stated: in the dispatch loop the registry lock is released between
\* the sends to two consecutive targets.
C16_RegistryLockPerSend ==
  (pc = "dispatch" /\ 1 < idx /\ idx <= NumTargets) => "targets" \notin locks

\* C16 amended: send_pings holds the registry lock at every point of the
\* dispatch loop and of the idle sweep, from the first target to the last,
\* and at no other point between two of its steps; every send of a round,
\* with the transport lock it takes, happens under that one hold.
C16_RegistryLockPerLoop ==
  ("targets" \in locks) <=> pc \in {"dispatch", "sweep"}

\* between the sends to the first and to the second target of the second
\* round, with the registry lock held
C16_Witness ==
  /\ pc = "dispatch"
  /\ round = 2
  /\ idx = 2 /\ NumTargets = 2
  /\ dispatched = {KeyAt(1)}
  /\ "targets" \in locks

\* ------------------------------------------------------------------ C18
\* C18 as stated: in a round no target has more than one Receive event.
C18_OneReceivePerTarget ==
  \A a \in Keys : RecvCount(a) <= 1

\* C18 amended: a reply that matches a target whose seen flag is already
\* true, because a matching reply was processed before it in the round, is
\* reported like the first one: one more Receive event for that target is
\* sent and seen stays true.
C18_ReceivePerMatchingReply ==
  [][(/\ ReplyConsumed
      /\ Head(inbound).addr \in Keys
      /\ Head(inbound).identifier = targets[Head(inbound).addr].identifier
      /\ Head(inbound).sequence_number
           = targets[Head(inbound).addr].sequence_number
      /\ targets[Head(inbound).addr].seen)
     => (/\ EventSent
         /\ results'[Len(results')].kind = "Receive"
         /\ results'[Len(results')].addr = Head(inbound).addr
         /\ targets'[Head(inbound).addr].seen)]_vars

\* two Receive events of the same round for one IPv4 target, both for replies
\* to this round's request
C18_Witness ==
  /\ pc = "wait"
  /\ \E a \in V4Addrs \cap Keys :
       /\ RecvCount(a) = 2
       /\ targets[a].seen
       /\ \A i \in DOMAIN results :
            results[i].addr = a => results[i].origin = round

\* ------------------------------------------------------------------ C19
\* C19: among the events of the round in progress no Idle event precedes a
\* Receive event, and the Idle events are in ascending order of address;
\* the outcome channel only grows by events of the round in progress, rounds
\* are numbered upwards, and the events of a round are complete when the
\* next round begins.
C19_EventOrder ==
  /\ [](\A i, j \in DOMAIN results :
          /\ results[i].round = round
          /\ i < j =>
               /\ ~(results[i].kind = "Idle" /\ results[j].kind = "Receive")
               /\ (results[i].kind = "Idle" /\ results[j].kind = "Idle")
                    => results[i].addr < results[j].addr)
  /\ [][/\ round' >= round
        /\ \/ results' = results
           \/ /\ EventSent
              /\ SubSeq(results', 1, Len(results)) = results
              /\ round' = round
              /\ pc \in {"wait", "sweep"}
           \/ /\ results' = <<>>
              /\ round' = round + 1
              /\ pc = "round_start"]_vars

\* the events of a complete second round: the Receive event of the target
\* with the greater address, then the Idle event of the other target
C19_Witness ==
  /\ pc = "stopcheck"
  /\ round = 2
  /\ Len(results) = 2
  /\ results[1].kind = "Receive" /\ results[2].kind = "Idle"
  /\ results[2].addr < results[1].addr

\* ------------------------------------------------------------------ C20
\* C20: every Idle event of the round in progress is for a target the
\* dispatch loop of this round has visited, also when the owner of the
\* session inserts targets while send_pings runs.
C20_IdleOnlyAfterRequest ==
  \A i \in DOMAIN results :
    results[i].kind = "Idle" => results[i].addr \in dispatched

\* ------------------------------------------------------------------ C17
\* C17: the stop flag is never cleared; once it is set and a round is in
\* progress, no further round is begun, so that a stop set before the
\* dispatch of a round lets that one round run and no other; and when the
\* thread keeps being scheduled and the clock advances, send_pings
\* eventually stops running. (A stop set when the last round the model
\* allows is over is left aside: the model begins no round after it.)
C17_StopEndsScheduler ==
  /\ [][/\ stop => stop'
        /\ (stop /\ pc \in {"dispatch", "arm", "wait", "sweep", "stopcheck"})
             => pc' # "round_start"]_vars
  /\ (stop /\ ~(pc = "round_start" /\ round = MaxRounds))
       ~> (pc \notin Running)

\* stop was set and send_pings has returned from the stop check of the
\* second round
C17_Witness ==
  /\ pc = "done"
  /\ stop
  /\ round = 2

\* ------------------------------------------------------------------ C15
\* C15: whenever send_pings is in the inner loop and more than max_rtt has
\* elapsed since the timer was armed, it eventually leaves the inner loop
\* for the idle sweep, whatever arrives on the inbound channel.
C15_WaitPhaseEnds ==
  (pc = "wait" /\ elapsed > MaxRtt) ~> (pc = "sweep")
====
